---- MODULE Spec2Model ----
(***************************************************************************)
(* Model of the X (Twitter) MCP server, src/server.py: five tools that     *)
(* each turn one call into HTTP requests against the API and the responses *)
(* into a returned string.                                                 *)
(*                                                                         *)
(* Texts are sequences of one-character strings.  Returned strings are     *)
(* sequences of tokens <<kind, chars>>: "lit" literal text of the source,  *)
(* "txt" a string value rendered by str(), "num" a number, "sq" a string   *)
(* in Python's quoted repr, "dq" a string in JSON's double quotes.         *)
(***************************************************************************)
EXTENDS Integers, Sequences, FiniteSets, TLC

VARIABLES pc, tool, text, tweet_id, tweets, posted_ids, reply_to,
          requests, responses, result, exc

vars == <<pc, tool, text, tweet_id, tweets, posted_ids, reply_to,
          requests, responses, result, exc>>

(***************************************************************************)
(* Bounds of the model.                                                    *)
(***************************************************************************)
\* the largest number of separator-joined raw segments of an input text
MaxSegs == 3

(***************************************************************************)
(* Program constants.                                                      *)
(***************************************************************************)
\* the literal 280 of the two length checks
MaxTweetLen == 280

THREAD_SEPARATOR == <<"\n", "\n", "-", "-", "-", "\n", "\n">>

(***************************************************************************)
(* Python string operations on sequences of characters.                    *)
(***************************************************************************)
\* the characters str.strip() removes, among those the inputs use
Whitespace == {" ", "\n"}

Min(S) == CHOOSE x \in S : \A y \in S : x <= y
Max(S) == CHOOSE x \in S : \A y \in S : x >= y

\* str.lstrip() in place of str.strip()
StripLeftOnly(s) ==
    LET keep == {k \in 1..Len(s) : s[k] \notin Whitespace}
    IN  IF keep = {} THEN <<>> ELSE SubSeq(s, Min(keep), Len(s))

\* str.strip(): drop the leading and the trailing whitespace
Strip(s) ==
    LET keep == {k \in 1..Len(s) : s[k] \notin Whitespace}
    IN  IF keep = {} THEN <<>> ELSE SubSeq(s, Min(keep), Max(keep))

\* the positions at which sep occurs in s
Occurrences(s, sep) ==
    {k \in 1..(Len(s) - Len(sep) + 1) : \A j \in 1..Len(sep) : s[k + j - 1] = sep[j]}

\* str.split(sep): cut at the leftmost occurrences that do not overlap
RECURSIVE SplitFrom(_, _, _, _)
SplitFrom(s, sep, occ, from) ==
    LET rest == {k \in occ : k >= from}
    IN  IF rest = {}
        THEN <<SubSeq(s, from, Len(s))>>
        ELSE <<SubSeq(s, from, Min(rest) - 1)>>
                 \o SplitFrom(s, sep, rest, Min(rest) + Len(sep))

Split(s, sep) == SplitFrom(s, sep, Occurrences(s, sep), 1)

\* [f(t) for t in xs if p(t)] with f = strip and p = truth of the stripped text
RECURSIVE StripAndKeep(_)
StripAndKeep(xs) ==
    IF xs = <<>> THEN <<>>
    ELSE LET t == Strip(Head(xs))
         IN  (IF t # <<>> THEN <<t>> ELSE <<>>) \o StripAndKeep(Tail(xs))

(***************************************************************************)
(* JSON values as the json module hands them to the program.  A node is a  *)
(* record of one shape: t its type, s its text when it is a string, a      *)
(* number or a boolean, o its members in order when it is an object.       *)
(***************************************************************************)
Str(s)  == [t |-> "str",  s |-> s,  o |-> <<>>]
Num(s)  == [t |-> "num",  s |-> s,  o |-> <<>>]
Bool(s) == [t |-> "bool", s |-> s,  o |-> <<>>]
Null    == [t |-> "null", s |-> "", o |-> <<>>]
Obj(ms) == [t |-> "obj",  s |-> "", o |-> ms]
Member(k, v) == [k |-> k, v |-> v]

Lit(s) == <<"lit", s>>

\* key in d, for a dict d
HasKey(d, k) == d.t = "obj" /\ \E j \in 1..Len(d.o) : d.o[j].k = k

\* d[k], where HasKey(d, k)
GetItem(d, k) == d.o[CHOOSE j \in 1..Len(d.o) : d.o[j].k = k].v

\* d.get(k) in place of d.get(k, default)
DictGetNoDefault(d, k, default) == IF HasKey(d, k) THEN GetItem(d, k) ELSE Null

\* d.get(k, default), for a dict d
DictGet(d, k, default) == IF HasKey(d, k) THEN GetItem(d, k) ELSE default

\* the exception d[k] raises when it raises
SubscriptError(d) == IF d.t = "obj" THEN "KeyError" ELSE "TypeError"

\* bool(v): what `if v:` tests
Truthy(v) ==
    CASE v.t = "str"  -> v.s # ""
      [] v.t = "num"  -> v.s # "0"
      [] v.t = "bool" -> v.s = "true"
      [] v.t = "null" -> FALSE
      [] v.t = "obj"  -> v.o # <<>>

\* repr(v): strings quoted, None, True and False, dicts with ": " and ", "
RECURSIVE PyRepr(_)
RECURSIVE PyMembers(_)
PyMembers(ms) ==
    IF ms = <<>> THEN <<>>
    ELSE <<<<"sq", Head(ms).k>>, Lit(": ")>> \o PyRepr(Head(ms).v)
             \o (IF Tail(ms) = <<>> THEN <<>> ELSE <<Lit(", ")>>)
             \o PyMembers(Tail(ms))

PyRepr(v) ==
    CASE v.t = "str"  -> <<<<"sq", v.s>>>>
      [] v.t = "num"  -> <<<<"num", v.s>>>>
      [] v.t = "bool" -> <<Lit(IF v.s = "true" THEN "True" ELSE "False")>>
      [] v.t = "null" -> <<Lit("None")>>
      [] v.t = "obj"  -> <<Lit("{")>> \o PyMembers(v.o) \o <<Lit("}")>>

\* str(v), what an f-string puts for {v}: a string as it is, the rest as repr
PyStr(v) == IF v.t = "str" THEN <<<<"txt", v.s>>>> ELSE PyRepr(v)

\* repr of a list of values
RECURSIVE PyElements(_)
PyElements(vs) ==
    IF vs = <<>> THEN <<>>
    ELSE PyRepr(Head(vs))
             \o (IF Tail(vs) = <<>> THEN <<>> ELSE <<Lit(", ")>>)
             \o PyElements(Tail(vs))

PyListRepr(vs) == <<Lit("[")>> \o PyElements(vs) \o <<Lit("]")>>

\* the text of a JSON document: strings in double quotes, null, true, false
RECURSIVE JsonText(_)
RECURSIVE JsonMembers(_)
JsonMembers(ms) ==
    IF ms = <<>> THEN <<>>
    ELSE <<<<"dq", Head(ms).k>>, Lit(":")>> \o JsonText(Head(ms).v)
             \o (IF Tail(ms) = <<>> THEN <<>> ELSE <<Lit(",")>>)
             \o JsonMembers(Tail(ms))

JsonText(v) ==
    CASE v.t = "str"  -> <<<<"dq", v.s>>>>
      [] v.t = "num"  -> <<<<"num", v.s>>>>
      [] v.t = "bool" -> <<Lit(v.s)>>
      [] v.t = "null" -> <<Lit("null")>>
      [] v.t = "obj"  -> <<Lit("{")>> \o JsonMembers(v.o) \o <<Lit("}")>>

(***************************************************************************)
(* HTTP responses.  A body is either a JSON document, given by the value   *)
(* it denotes, or a text that is no JSON document (s, empty or not).       *)
(***************************************************************************)
JsonBody(v) == [json |-> TRUE,  node |-> v,    s |-> ""]
TextBody(s) == [json |-> FALSE, node |-> Null, s |-> s]

\* resp.text
RawText(body) ==
    IF body.json THEN JsonText(body.node)
    ELSE IF body.s = "" THEN <<>> ELSE <<<<"txt", body.s>>>>

Response(status, body) == [status |-> status, body |-> body]

\* {"status": resp.status_code, "data": resp.json()}; resp.json() raises on a
\* body that is no JSON document
StatusAndJson(resp) ==
    [ok |-> resp.body.json, status |-> resp.status, data |-> resp.body.node]

\* resp.json() if resp.text else {}
StatusAndJsonOrEmpty(resp) ==
    IF RawText(resp.body) = <<>>
    THEN [ok |-> TRUE, status |-> resp.status, data |-> Obj(<<>>)]
    ELSE StatusAndJson(resp)

(***************************************************************************)
(* The outcome of a tool call: the string it returns, or the exception     *)
(* that leaves it.                                                         *)
(***************************************************************************)
Return(toks) == [kind |-> "returned", value |-> toks, exc |-> ""]
Raise(e)     == [kind |-> "raised",   value |-> <<>>, exc |-> e]

(***************************************************************************)
(* The requests of the four internal functions.                            *)
(***************************************************************************)
None == <<>>

\* payload = {"text": text}; if reply_to_id: payload["reply"] = {...}
Payload(t, reply_to_id) ==
    [text  |-> t,
     reply |-> IF reply_to_id # None /\ Truthy(reply_to_id[1])
               THEN reply_to_id ELSE None]

PostRequest(t, reply_to_id) ==
    [method |-> "POST", path |-> "/2/tweets", id |-> "",
     payload |-> <<Payload(t, reply_to_id)>>]

GetTweetRequest(id) ==
    [method |-> "GET", path |-> "/2/tweets/{id}", id |-> id, payload |-> <<>>]

DeleteRequest(id) ==
    [method |-> "DELETE", path |-> "/2/tweets/{id}", id |-> id, payload |-> <<>>]

GetMeRequest ==
    [method |-> "GET", path |-> "/2/users/me", id |-> "", payload |-> <<>>]

(***************************************************************************)
(* The tools: what each makes of the status and the parsed body.  r is     *)
(* the internal function's result: r.ok is false when resp.json() raised.  *)
(***************************************************************************)
StatusUrl(id) == <<Lit("https://twitter.com/i/status/")>> \o PyStr(id)

\* x_get_me, after _get_me()
GetMeOutcome(r) ==
    IF ~r.ok THEN Raise("JSONDecodeError")
    ELSE IF r.status # 200 THEN Return(<<Lit("Error: ")>> \o PyStr(r.data))
    ELSE IF ~HasKey(r.data, "data") THEN Raise(SubscriptError(r.data))
    ELSE LET data == GetItem(r.data, "data") IN
         IF data.t # "obj" THEN Raise("AttributeError")
         ELSE LET metrics == DictGet(data, "public_metrics", Obj(<<>>)) IN
              IF \E k \in {"username", "name", "id"} : ~HasKey(data, k)
              THEN Raise("KeyError")
              ELSE IF metrics.t # "obj" THEN Raise("AttributeError")
              ELSE Return(
                  <<Lit("Authenticated as: @")>> \o PyStr(GetItem(data, "username"))
                  \o <<Lit("\nName: ")>> \o PyStr(GetItem(data, "name"))
                  \o <<Lit("\nID: ")>> \o PyStr(GetItem(data, "id"))
                  \o <<Lit("\nFollowers: ")>>
                  \o PyStr(DictGet(metrics, "followers_count", Str("N/A")))
                  \o <<Lit("\nFollowing: ")>>
                  \o PyStr(DictGet(metrics, "following_count", Str("N/A")))
                  \o <<Lit("\nTweets: ")>>
                  \o PyStr(DictGet(metrics, "tweet_count", Str("N/A"))))

\* len(text) > 281 in place of len(text) > 280
TooLongOffByOne(t) == Len(t) > MaxTweetLen + 1

\* len(text) > 280
TooLong(t) == Len(t) > MaxTweetLen

TooLongError(t) ==
    <<Lit("Error: Tweet too long ("), <<"num", ToString(Len(t))>>,
      Lit(" chars). Max 280.")>>

\* x_post_tweet taking every 2xx status for a success
PostTweetOutcomeAny2xx(r) ==
    IF ~r.ok THEN Raise("JSONDecodeError")
    ELSE IF r.status \notin 200..299
    THEN Return(<<Lit("Error posting tweet: ")>> \o PyStr(r.data))
    ELSE IF ~HasKey(r.data, "data") THEN Raise(SubscriptError(r.data))
    ELSE IF ~HasKey(GetItem(r.data, "data"), "id")
    THEN Raise(SubscriptError(GetItem(r.data, "data")))
    ELSE LET id == GetItem(GetItem(r.data, "data"), "id") IN
         Return(<<Lit("Tweet posted!\nID: ")>> \o PyStr(id)
                \o <<Lit("\nURL: ")>> \o StatusUrl(id))

\* x_post_tweet, after _post_tweet(text)
PostTweetOutcome(r) ==
    IF ~r.ok THEN Raise("JSONDecodeError")
    ELSE IF r.status # 201
    THEN Return(<<Lit("Error posting tweet: ")>> \o PyStr(r.data))
    ELSE IF ~HasKey(r.data, "data") THEN Raise(SubscriptError(r.data))
    ELSE IF ~HasKey(GetItem(r.data, "data"), "id")
    THEN Raise(SubscriptError(GetItem(r.data, "data")))
    ELSE LET id == GetItem(GetItem(r.data, "data"), "id") IN
         Return(<<Lit("Tweet posted!\nID: ")>> \o PyStr(id)
                \o <<Lit("\nURL: ")>> \o StatusUrl(id))

\* x_get_tweet, after _get_tweet(tweet_id)
GetTweetOutcome(r) ==
    IF ~r.ok THEN Raise("JSONDecodeError")
    ELSE IF r.status # 200 THEN Return(<<Lit("Error: ")>> \o PyStr(r.data))
    ELSE IF ~HasKey(r.data, "data") THEN Raise(SubscriptError(r.data))
    ELSE LET data == GetItem(r.data, "data") IN
         IF data.t # "obj" THEN Raise("AttributeError")
         ELSE LET metrics == DictGet(data, "public_metrics", Obj(<<>>)) IN
              IF ~HasKey(data, "id") THEN Raise("KeyError")
              ELSE IF metrics.t # "obj" THEN Raise("AttributeError")
              ELSE Return(
                  <<Lit("Tweet ID: ")>> \o PyStr(GetItem(data, "id"))
                  \o <<Lit("\nText: ")>>
                  \o PyStr(DictGet(data, "text", Str("N/A")))
                  \o <<Lit("\nCreated: ")>>
                  \o PyStr(DictGet(data, "created_at", Str("N/A")))
                  \o <<Lit("\n\nMetrics:\n- Likes: ")>>
                  \o PyStr(DictGet(metrics, "like_count", Num("0")))
                  \o <<Lit("\n- Retweets: ")>>
                  \o PyStr(DictGet(metrics, "retweet_count", Num("0")))
                  \o <<Lit("\n- Replies: ")>>
                  \o PyStr(DictGet(metrics, "reply_count", Num("0")))
                  \o <<Lit("\n- Impressions: ")>>
                  \o PyStr(DictGet(metrics, "impression_count", Num("0")))
                  \o <<Lit("\n- Quotes: ")>>
                  \o PyStr(DictGet(metrics, "quote_count", Num("0")))
                  \o <<Lit("\n- Bookmarks: ")>>
                  \o PyStr(DictGet(metrics, "bookmark_count", Num("0"))))

\* x_delete_tweet, after _delete_tweet(tweet_id)
DeleteTweetOutcome(r, id) ==
    IF ~r.ok THEN Raise("JSONDecodeError")
    ELSE IF r.status # 200
    THEN Return(<<Lit("Error deleting tweet: ")>> \o PyStr(r.data))
    ELSE Return(<<Lit("Tweet "), <<"txt", id>>, Lit(" deleted successfully.")>>)

(***************************************************************************)
(* x_post_thread.                                                          *)
(***************************************************************************)
\* tweets = [t.strip() for t in text.split(THREAD_SEPARATOR) if t.strip()]
ThreadTweets(t) == StripAndKeep(Split(t, THREAD_SEPARATOR))

\* the checks without the count of tweets
ThreadRejectedNoCount(tw) == \E k \in 1..Len(tw) : TooLong(tw[k])

\* the checks with the length of the first tweet alone
ThreadRejectedFirstOnly(tw) == Len(tw) < 2 \/ TooLong(tw[1])

\* the checks before the first request: whether one of them returns
ThreadRejected(tw) ==
    Len(tw) < 2 \/ \E k \in 1..Len(tw) : TooLong(tw[k])

\* the string the failing check returns
ThreadRejection(tw) ==
    IF Len(tw) < 2
    THEN <<Lit("Error: Thread must have at least 2 tweets. Use '\\n\\n---\\n\\n' as separator.")>>
    ELSE LET k == Min({j \in 1..Len(tw) : TooLong(tw[j])}) IN
         <<Lit("Error: Tweet "), <<"num", ToString(k)>>, Lit(" too long ("),
           <<"num", ToString(Len(tw[k]))>>, Lit(" chars). Max 280.")>>

\* the error of the loop's k-th round
ThreadStepError(k, data, posted) ==
    <<Lit("Error posting tweet "), <<"num", ToString(k)>>, Lit(": ")>>
        \o PyStr(data) \o <<Lit("\nPosted so far: ")>> \o PyListRepr(posted)

\* the string returned after the loop
ThreadPosted(posted) ==
    <<Lit("Thread posted! ("), <<"num", ToString(Len(posted))>>,
      Lit(" tweets)\nIDs: ")>>
        \o PyListRepr(posted) \o <<Lit("\nFirst tweet: ")>> \o StatusUrl(posted[1])

(***************************************************************************)
(* The inputs: texts joined from raw segments, tweet identifiers, and the  *)
(* responses the API may give.                                             *)
(***************************************************************************)
Run(n) == [k \in 1..n |-> "a"]

RawSegs ==
    { <<" ">>, <<"a">>, <<" ", "b", "\n">>,
      Run(MaxTweetLen), Run(MaxTweetLen + 1) }

RECURSIVE Join(_)
Join(segs) ==
    IF segs = <<>> THEN <<>>
    ELSE IF Len(segs) = 1 THEN segs[1]
    ELSE segs[1] \o THREAD_SEPARATOR \o Join(Tail(segs))

Texts == {Join(segs) : segs \in UNION {[1..n -> RawSegs] : n \in 0..MaxSegs}}

TweetIds == {"42", "7"}

Forbidden == Obj(<<Member("title", Str("Forbidden")), Member("status", Num("403"))>>)

Created(id) == Obj(<<Member("data", Obj(<<Member("id", id)>>))>>)

PostBodies ==
    { TextBody("<html>"),
      JsonBody(Forbidden),
      JsonBody(Obj(<<Member("data", Obj(<<>>))>>)),
      JsonBody(Created(Str("t1"))),
      JsonBody(Created(Str("t2"))),
      JsonBody(Created(Str(""))) }

PostResponses == {Response(st, b) : st \in {201, 200, 403}, b \in PostBodies}

\* an object with the members of ks, each holding what val gives it
RECURSIVE Members(_, _, _)
Members(order, ks, val) ==
    IF order = <<>> THEN <<>>
    ELSE (IF Head(order) \in ks
          THEN <<Member(Head(order), val[Head(order)])>> ELSE <<>>)
             \o Members(Tail(order), ks, val)

Range(f) == {f[k] : k \in DOMAIN f}

SubObjects(order, val) ==
    {Obj(Members(order, ks, val)) : ks \in SUBSET Range(order)}

\* data of a user or a tweet: any of the fields, public_metrics left out,
\* null, or holding any of its counts
WithMetrics(fields, metrics) ==
    {Obj(f.o) : f \in fields}
        \cup {Obj(f.o \o <<Member("public_metrics", m)>>) :
                  f \in fields, m \in metrics \cup {Null}}

UserData ==
    WithMetrics(
        SubObjects(<<"id", "name", "username">>,
                   [id |-> Str("1"), name |-> Str("Al"), username |-> Str("al")]),
        SubObjects(<<"followers_count", "following_count", "tweet_count">>,
                   [followers_count |-> Num("5"), following_count |-> Num("0"),
                    tweet_count |-> Num("9")]))

TweetData ==
    WithMetrics(
        SubObjects(<<"id", "text", "created_at">>,
                   [id |-> Str("42"), text |-> Str("hi"), created_at |-> Str("2024")]),
        SubObjects(<<"like_count", "retweet_count", "reply_count",
                     "impression_count", "quote_count", "bookmark_count">>,
                   [like_count |-> Num("3"), retweet_count |-> Num("1"),
                    reply_count |-> Num("0"), impression_count |-> Num("8"),
                    quote_count |-> Num("2"), bookmark_count |-> Num("4")]))

OddBodies ==
    { TextBody("<html>"), TextBody(""), JsonBody(Forbidden),
      JsonBody(Obj(<<>>)), JsonBody(Null),
      JsonBody(Obj(<<Member("data", Null)>>)) }

GetMeResponses ==
    {Response(st, b) : st \in {200, 201, 401},
                       b \in OddBodies \cup {JsonBody(Obj(<<Member("data", d)>>)) : d \in UserData}}

GetTweetResponses ==
    {Response(st, b) : st \in {200, 404},
                       b \in OddBodies \cup {JsonBody(Obj(<<Member("data", d)>>)) : d \in TweetData}}

DeleteResponses ==
    {Response(st, b) : st \in {200, 204, 404},
                       b \in OddBodies \cup
                           {JsonBody(Obj(<<Member("data",
                               Obj(<<Member("deleted", Bool("true"))>>))>>))}}

(***************************************************************************)
(* The state machine: one tool call, from the call to its outcome.         *)
(***************************************************************************)
Init ==
    /\ pc = "idle"
    /\ tool = ""
    /\ text = <<>>
    /\ tweet_id = ""
    /\ tweets = <<>>
    /\ posted_ids = <<>>
    /\ reply_to = None
    /\ requests = <<>>
    /\ responses = <<>>
    /\ result = <<>>
    /\ exc = ""

\* the call ends with outcome o
Finish(o) ==
    /\ pc' = o.kind
    /\ result' = o.value
    /\ exc' = o.exc

\* a request sent again when its response is no success
ExchangeWithRetry(req, resp) ==
    IF resp.status \in 200..299
    THEN /\ requests' = Append(requests, req)
         /\ responses' = Append(responses, resp)
    ELSE /\ requests' = requests \o <<req, req>>
         /\ responses' = responses \o <<resp, resp>>

\* one request sent and its response received
Exchange(req, resp) ==
    /\ requests' = Append(requests, req)
    /\ responses' = Append(responses, resp)

x_get_me ==
    /\ pc = "idle"
    /\ tool' = "x_get_me"
    /\ \E resp \in GetMeResponses :
          /\ Exchange(GetMeRequest, resp)
          /\ Finish(GetMeOutcome(StatusAndJson(resp)))
    /\ UNCHANGED <<text, tweet_id, tweets, posted_ids, reply_to>>

x_post_tweet ==
    /\ pc = "idle"
    /\ tool' = "x_post_tweet"
    /\ \E t \in Texts :
          /\ text' = t
          /\ IF TooLong(t)
             THEN /\ Finish(Return(TooLongError(t)))
                  /\ UNCHANGED <<requests, responses>>
             ELSE \E resp \in PostResponses :
                     /\ Exchange(PostRequest(t, None), resp)
                     /\ Finish(PostTweetOutcome(StatusAndJson(resp)))
    /\ UNCHANGED <<tweet_id, tweets, posted_ids, reply_to>>

\* lines 137-148: split, the two checks, the loop's variables
x_post_thread ==
    /\ pc = "idle"
    /\ tool' = "x_post_thread"
    /\ \E t \in Texts :
          /\ text' = t
          /\ tweets' = ThreadTweets(t)
          /\ IF ThreadRejected(ThreadTweets(t))
             THEN Finish(Return(ThreadRejection(ThreadTweets(t))))
             ELSE /\ pc' = "posting"
                  /\ UNCHANGED <<result, exc>>
    /\ posted_ids' = <<>>
    /\ reply_to' = None
    /\ UNCHANGED <<tweet_id, requests, responses>>

\* one round of the loop of lines 150-158, and lines 160-164 after the last
PostThreadStep ==
    /\ pc = "posting"
    /\ LET k == Len(posted_ids) + 1 IN
       \E resp \in PostResponses :
          LET r == StatusAndJson(resp) IN
          /\ Exchange(PostRequest(tweets[k], reply_to), resp)
          /\ IF ~r.ok
             THEN /\ Finish(Raise("JSONDecodeError"))
                  /\ UNCHANGED <<posted_ids, reply_to>>
             ELSE IF r.status # 201
             THEN /\ Finish(Return(ThreadStepError(k, r.data, posted_ids)))
                  /\ UNCHANGED <<posted_ids, reply_to>>
             ELSE IF ~HasKey(r.data, "data")
             THEN /\ Finish(Raise(SubscriptError(r.data)))
                  /\ UNCHANGED <<posted_ids, reply_to>>
             ELSE IF ~HasKey(GetItem(r.data, "data"), "id")
             THEN /\ Finish(Raise(SubscriptError(GetItem(r.data, "data"))))
                  /\ UNCHANGED <<posted_ids, reply_to>>
             ELSE LET id == GetItem(GetItem(r.data, "data"), "id") IN
                  /\ posted_ids' = Append(posted_ids, id)
                  /\ reply_to' = <<id>>
                  /\ IF k = Len(tweets)
                     THEN Finish(Return(ThreadPosted(Append(posted_ids, id))))
                     ELSE UNCHANGED <<pc, result, exc>>
    /\ UNCHANGED <<tool, text, tweet_id, tweets>>

x_get_tweet ==
    /\ pc = "idle"
    /\ tool' = "x_get_tweet"
    /\ \E id \in TweetIds, resp \in GetTweetResponses :
          /\ tweet_id' = id
          /\ Exchange(GetTweetRequest(id), resp)
          /\ Finish(GetTweetOutcome(StatusAndJson(resp)))
    /\ UNCHANGED <<text, tweets, posted_ids, reply_to>>

x_delete_tweet ==
    /\ pc = "idle"
    /\ tool' = "x_delete_tweet"
    /\ \E id \in TweetIds, resp \in DeleteResponses :
          /\ tweet_id' = id
          /\ Exchange(DeleteRequest(id), resp)
          /\ Finish(DeleteTweetOutcome(StatusAndJsonOrEmpty(resp), id))
    /\ UNCHANGED <<text, tweets, posted_ids, reply_to>>

Next ==
    \/ x_get_me
    \/ x_post_tweet
    \/ x_post_thread
    \/ PostThreadStep
    \/ x_get_tweet
    \/ x_delete_tweet

Spec == Init /\ [][Next]_vars

(***************************************************************************)
(* Vocabulary of the properties.                                           *)
(***************************************************************************)
Done == pc \in {"returned", "raised"}

Last(q) == q[Len(q)]

\* sub occurs in toks as a run of consecutive tokens
Contains(toks, sub) ==
    \E k \in 0..(Len(toks) - Len(sub)) : SubSeq(toks, k + 1, k + Len(sub)) = sub

EndsWith(toks, sub) ==
    /\ Len(toks) >= Len(sub)
    /\ SubSeq(toks, Len(toks) - Len(sub) + 1, Len(toks)) = sub

\* the openings of the error strings of the five tools
ErrorOpenings ==
    { "Error: ", "Error posting tweet: ", "Error posting tweet ",
      "Error deleting tweet: ", "Error: Tweet too long (", "Error: Tweet ",
      "Error: Thread must have at least 2 tweets. Use '\\n\\n---\\n\\n' as separator." }

IsError(toks) == toks # <<>> /\ toks[1][1] = "lit" /\ toks[1][2] \in ErrorOpenings

IsSuccess(toks) == toks # <<>> /\ ~IsError(toks)

\* the response carries data.id
HasId(resp) ==
    /\ resp.body.json
    /\ HasKey(resp.body.node, "data")
    /\ HasKey(GetItem(resp.body.node, "data"), "id")

IdOf(resp) == GetItem(GetItem(resp.body.node, "data"), "id")

\* the text and the reply target of the k-th request
TextOf(k) == requests[k].payload[1].text
ReplyOf(k) == requests[k].payload[1].reply

\* the non-empty trimmed segments of each input, and of the call's input
SegmentsOf[t \in Texts] == ThreadTweets(t)
Segments == SegmentsOf[text]

\* the input is a thread of at least 2 segments of at most 280 characters
ValidThread ==
    LET segs == Segments
    IN  Len(segs) >= 2 /\ \A k \in 1..Len(segs) : Len(segs[k]) <= MaxTweetLen

\* the one status each tool takes for a success
Expected ==
    IF tool \in {"x_post_tweet", "x_post_thread"} THEN 201 ELSE 200

\* C1: a text of more than 280 characters makes x_post_tweet return an error
\* string and send no request.
C1_TooLongNoRequest ==
    (tool = "x_post_tweet" /\ Len(text) > MaxTweetLen)
        => (pc = "returned" /\ IsError(result) /\ requests = <<>>)

C1_Witness ==
    /\ tool = "x_post_tweet"
    /\ Len(text) = MaxTweetLen + 1
    /\ pc = "returned"
    /\ result = TooLongError(text)

\* C2: an input with fewer than 2 non-empty trimmed segments makes
\* x_post_thread return an error string and send no request.
C2_TooFewSegmentsNoRequest ==
    (tool = "x_post_thread" /\ Len(Segments) < 2)
        => (pc = "returned" /\ IsError(result) /\ requests = <<>>)

C2_Witness ==
    /\ tool = "x_post_thread"
    /\ text = <<"a">> \o THREAD_SEPARATOR \o <<" ">>
    /\ pc = "returned"
    /\ IsError(result)

\* C3: a trimmed segment of more than 280 characters at any position makes
\* x_post_thread return an error string and send no request, so that no
\* earlier segment is posted.
C3_LongSegmentNoRequest ==
    (tool = "x_post_thread"
        /\ LET segs == Segments
           IN  \E k \in 1..Len(segs) : Len(segs[k]) > MaxTweetLen)
        => (pc = "returned" /\ IsError(result) /\ requests = <<>>)

C3_Witness ==
    /\ tool = "x_post_thread"
    /\ text = <<"a">> \o THREAD_SEPARATOR \o <<" ", "b", "\n">>
                  \o THREAD_SEPARATOR \o Run(MaxTweetLen + 1)
    /\ pc = "returned"
    /\ IsError(result)

\* C4: in a thread whose responses all have status 201 and carry an
\* identifier, N requests are sent for N segments, the first without a reply
\* target, and each later one replies to the identifier of the response
\* before it, whatever that identifier is.
C4_ReplyChain ==
    (tool = "x_post_thread" /\ ValidThread) =>
        /\ (Done /\ \A j \in 1..Len(responses) :
                        responses[j].status = 201 /\ HasId(responses[j]))
               => Len(requests) = Len(Segments)
        /\ requests # <<>> => ReplyOf(1) = None
        /\ \A k \in 2..Len(requests) : ReplyOf(k) = <<IdOf(responses[k - 1])>>

\* C5: a status other than 201 in the k-th round ends the call with an error
\* string that lists the identifiers of the k-1 rounds before, in order, with
\* no further request and no delete request.
C5_StopsAndListsPosted ==
    (tool = "x_post_thread" /\ responses # <<>> /\ Last(responses).status # 201)
        => /\ pc = "returned"
           /\ IsError(result)
           /\ EndsWith(result,
                  <<Lit("\nPosted so far: ")>>
                      \o PyListRepr([j \in 1..(Len(responses) - 1) |->
                                        IdOf(responses[j])]))
           /\ \A k \in 1..Len(requests) : requests[k].method = "POST"

\* the body as the tool's internal function parses it, when it does
Parsed(resp) ==
    resp.body.json \/ (tool = "x_delete_tweet" /\ RawText(resp.body) = <<>>)

ParsedData(resp) == IF resp.body.json THEN resp.body.node ELSE Obj(<<>>)

C7_AlwaysReturnsString ==
    /\ Done => pc = "returned"
    /\ (pc = "returned" /\ IsError(result) /\ responses # <<>>)
           => /\ Contains(result, <<<<"num", ToString(Last(responses).status)>>>>)
              /\ Contains(result, RawText(Last(responses).body))

\* C8: no request is sent twice: the four single tools send one request
\* whatever the status, a thread at most one per segment, and the first
\* response that is no success is the last of the call.
C8_NoRetries ==
    /\ Len(requests) = Len(responses)
    /\ tool \in {"x_get_me", "x_get_tweet", "x_delete_tweet"}
           => (Done /\ Len(requests) = 1)
    /\ (tool = "x_post_tweet" /\ Len(text) <= MaxTweetLen)
           => (Done /\ Len(requests) = 1)
    /\ tool = "x_post_thread"
           => /\ Len(requests) <= Len(Segments)
              /\ \A j \in 1..(Len(responses) - 1) : responses[j].status = 201
    /\ (responses # <<>> /\ Last(responses).status \notin 200..299) => Done

C8_Witness ==
    /\ tool = "x_post_thread"
    /\ Len(Segments) = 3
    /\ Len(requests) = 2
    /\ Last(responses).status = 403
    /\ pc = "returned"

\* what the success string shows for key: its value, or the default
Shown(d, key, default) ==
    PyStr(IF HasKey(d, key) THEN GetItem(d, key) ELSE default)

\* the response is a 200 whose data holds the fields of ks and whose
\* public_metrics, when there, is an object
WellFormed(resp, ks) ==
    /\ resp.status = 200
    /\ resp.body.json
    /\ HasKey(resp.body.node, "data")
    /\ LET d == GetItem(resp.body.node, "data") IN
       /\ d.t = "obj"
       /\ \A k \in ks : HasKey(d, k)
       /\ HasKey(d, "public_metrics") => GetItem(d, "public_metrics").t = "obj"

MetricsOf(resp) ==
    LET d == GetItem(resp.body.node, "data") IN
    IF HasKey(d, "public_metrics") THEN GetItem(d, "public_metrics") ELSE Obj(<<>>)

\* C9: on a 200, x_get_me and x_get_tweet return a success string with every
\* metric, the text and the creation time, each shown with its value or, when
\* the body lacks it, as N/A (0 for the metrics of a tweet).
C9_MissingFieldsDefaulted ==
    /\ (tool = "x_get_me" /\ WellFormed(responses[1], {"username", "name", "id"}))
           => /\ pc = "returned"
              /\ IsSuccess(result)
              /\ \A f \in { <<"\nFollowers: ", "followers_count">>,
                            <<"\nFollowing: ", "following_count">>,
                            <<"\nTweets: ", "tweet_count">> } :
                     Contains(result,
                         <<Lit(f[1])>> \o Shown(MetricsOf(responses[1]), f[2], Str("N/A")))
    /\ (tool = "x_get_tweet" /\ WellFormed(responses[1], {"id"}))
           => /\ pc = "returned"
              /\ IsSuccess(result)
              /\ \A f \in { <<"\nText: ", "text">>, <<"\nCreated: ", "created_at">> } :
                     Contains(result,
                         <<Lit(f[1])>>
                             \o Shown(GetItem(responses[1].body.node, "data"),
                                      f[2], Str("N/A")))
              /\ \A f \in { <<"\n\nMetrics:\n- Likes: ", "like_count">>,
                            <<"\n- Retweets: ", "retweet_count">>,
                            <<"\n- Replies: ", "reply_count">>,
                            <<"\n- Impressions: ", "impression_count">>,
                            <<"\n- Quotes: ", "quote_count">>,
                            <<"\n- Bookmarks: ", "bookmark_count">> } :
                     Contains(result,
                         <<Lit(f[1])>> \o Shown(MetricsOf(responses[1]), f[2], Num("0")))

C9_Witness ==
    /\ tool = "x_get_tweet"
    /\ pc = "returned"
    /\ WellFormed(responses[1], {"id"})
    /\ ~HasKey(GetItem(responses[1].body.node, "data"), "text")
    /\ HasKey(MetricsOf(responses[1]), "like_count")
    /\ ~HasKey(MetricsOf(responses[1]), "retweet_count")
    /\ Contains(result, <<Lit("\nText: "), <<"txt", "N/A">>>>)
    /\ Contains(result, <<Lit("\n\nMetrics:\n- Likes: "), <<"num", "3">>>>)
    /\ Contains(result, <<Lit("\n- Retweets: "), <<"num", "0">>>>)

\* C10: every request of a thread carries a text that is not empty, has no
\* whitespace at either end and at most 280 characters, the k-th request the
\* k-th segment of the input; a posted thread reports as many identifiers as
\* the input has segments.
C10_RequestsAreTheSegments ==
    tool = "x_post_thread" =>
        LET segs == Segments IN
        /\ Len(requests) <= Len(segs)
        /\ \A k \in 1..Len(requests) :
              /\ requests[k].method = "POST"
              /\ TextOf(k) # <<>>
              /\ TextOf(k)[1] \notin Whitespace
              /\ Last(TextOf(k)) \notin Whitespace
              /\ Len(TextOf(k)) <= MaxTweetLen
              /\ TextOf(k) = segs[k]
        /\ (pc = "returned" /\ IsSuccess(result))
              => /\ Len(posted_ids) = Len(segs)
                 /\ result[2] = <<"num", ToString(Len(segs))>>
                 /\ Contains(result, <<Lit(" tweets)\nIDs: ")>> \o PyListRepr(posted_ids))

C10_Witness ==
    /\ tool = "x_post_thread"
    /\ pc = "returned"
    /\ IsSuccess(result)
    /\ Len(requests) = 3
    /\ text = Run(MaxTweetLen) \o THREAD_SEPARATOR \o <<" ", "b", "\n">>
                  \o THREAD_SEPARATOR \o <<"a">>
    /\ TextOf(2) = <<"b">>

====
